---- MODULE Spec2Model ----
(***************************************************************************)
(* A model of grib_utils.py: the attribute filter (filter_grib_layers),    *)
(* the raster extractor (grib_message_to_arrays_raster), the report        *)
(* (print_grib_content_report, open_grib) and the full-table print         *)
(* (print_full_df).                                                        *)
(*                                                                         *)
(* A GRIB message is a function from the attribute names it exposes        *)
(* (its keys()) to the value the decoder holds for that name.  A Python    *)
(* value that is either a list, a bare message or a raised exception is a  *)
(* record [kind, items, err].                                              *)
(***************************************************************************)
EXTENDS Integers, Sequences, FiniteSets, TLC

VARIABLES
    f_grbs,        \* filter: the argument grbs of the first call
    f_filters,     \* filter: **grib_layer_filters, in keyword order
    f_ret,         \* filter: what the first call returned or raised
    f_ret2,        \* filter: what the call on f_ret returned or raised
    g_arg,         \* raster: the argument grb (a list of messages or a message)
    g_buffer,      \* raster: nodata_buffer
    g_nodata,      \* raster: nodata
    g_heap0,       \* raster: each message's arrays as decoded, before the call
    g_heap,        \* raster: each message's arrays now
    g_reads,       \* raster: the accessors the call has used, in order
    g_ret,         \* raster: what the call returned or raised
    options,       \* pandas' display.max_rows and display.max_columns
    options0,      \* the display options before the call under study
    p_x,           \* print: the frame handed to print_full_df
    p_broken,      \* print: whether print(x) raises (a closed stdout)
    r_source,      \* report: the argument gribfile, with the messages behind it
    r_ret,         \* report: how the call ended
    r_df,          \* report: the summary table df
    r_same,        \* report: df_same, the common section
    r_unique,      \* report: df_unique, the per-layer section
    stdout,        \* the lines printed so far
    pc             \* the position of the calling script

f_vars == <<f_grbs, f_filters, f_ret, f_ret2>>
g_vars == <<g_arg, g_buffer, g_nodata, g_heap0, g_heap, g_reads, g_ret>>
p_vars == <<p_x, p_broken>>
r_vars == <<r_source, r_ret, r_df, r_same, r_unique>>
vars == <<f_vars, g_vars, p_vars, r_vars, options, options0, stdout, pc>>

----------------------------------------------------------------------------
(* Python values *)

Unreadable == "unreadable"   \* a key the decoder lists but cannot read
ArrayVal   == "array"        \* a list or numpy array value
None       == "None"

PyList(s)   == [kind |-> "list",  items |-> s,     err |-> ""]
PyMsg(m)    == [kind |-> "msg",   items |-> <<m>>, err |-> ""]
PyRaise(e)  == [kind |-> "raise", items |-> <<>>,  err |-> e]
NoValue     == [kind |-> "none",  items |-> <<>>,  err |-> ""]

Range(s) == {s[i] : i \in DOMAIN s}

SeqsUpTo(S, n) == UNION {[1..k -> S] : k \in 0..n}

\* grb[key]: the decoder raises for a key it does not have or cannot read
Lookup(grb, key) ==
    IF key \notin DOMAIN grb \/ grb[key] = Unreadable
    THEN [raised |-> TRUE,  val |-> ""]
    ELSE [raised |-> FALSE, val |-> grb[key]]

----------------------------------------------------------------------------
(* grib_message_to_arrays_raster *)

MaxGribs  == 2     \* messages held, and the longest list passed
GridCells == 2     \* cells of a grid, row by row
MaxMag    == 2     \* grid values range over -MaxMag..MaxMag

GribIds == 1..MaxGribs
Grids   == [1..GridCells -> -MaxMag..MaxMag]

\* the arrays of message i whose value grid is v
Arrays(i, v) ==
    [values |-> v,
     lats   |-> [c \in 1..GridCells |-> 10 * i + c],
     lons   |-> [c \in 1..GridCells |-> 20 * i + c]]

NoArrays == [kind |-> "none", values |-> <<>>, lats |-> <<>>, lons |-> <<>>,
             err |-> "", layers |-> 0]

\* values[values < nodata_buffer] = nodata
clamp_le(values, nodata_buffer, nodata) ==
    [c \in DOMAIN values |->
        IF values[c] <= nodata_buffer THEN nodata ELSE values[c]]

clamp(values, nodata_buffer, nodata) ==
    [c \in DOMAIN values |->
        IF values[c] < nodata_buffer THEN nodata ELSE values[c]]

\* lines 173-178: the message to read, or the IOError
unwrap_never(grb) ==
    IF grb.kind = "list"
    THEN [raised |-> TRUE, id |-> 0, layers |-> Len(grb.items)]
    ELSE [raised |-> FALSE, id |-> grb.items[1], layers |-> 0]

unwrap(grb) ==
    IF grb.kind = "list"
    THEN IF Len(grb.items) = 1
         THEN [raised |-> FALSE, id |-> grb.items[1], layers |-> 0]
         ELSE [raised |-> TRUE, id |-> 0, layers |-> Len(grb.items)]
    ELSE [raised |-> FALSE, id |-> grb.items[1], layers |-> 0]

\* the whole call: what it returns, the arrays afterwards, the accessors used
grib_message_to_arrays_raster(grb, nodata_buffer, nodata, heap) ==
    LET u == unwrap(grb) IN
    IF u.raised
    THEN [ret   |-> [kind |-> "raise", values |-> <<>>, lats |-> <<>>,
                     lons |-> <<>>, err |-> "IOError", layers |-> u.layers],
          heap  |-> heap,
          reads |-> <<>>]
    ELSE LET values == IF nodata_buffer # 0
                       THEN clamp(heap[u.id].values, nodata_buffer, nodata)
                       ELSE heap[u.id].values
         IN  [ret   |-> [kind |-> "tuple", values |-> values,
                         lats |-> heap[u.id].lats, lons |-> heap[u.id].lons,
                         err |-> "", layers |-> 0],
              heap  |-> [heap EXCEPT ![u.id].values = values],
              reads |-> << <<"values", u.id>>, <<"latlons", u.id>> >>]

----------------------------------------------------------------------------
(* filter_grib_layers *)

MaxLen == 3

FilterKeys == <<"shortName", "level">>
FilterKeyVals ==
    [shortName |-> {"tp", "t2m"}, level |-> {"850", "500"}]

FilterMessages ==
    UNION {
        {g \in [D -> UNION Range(FilterKeyVals)] :
            \A k \in D : g[k] \in FilterKeyVals[k]} :
        D \in SUBSET Range(FilterKeys)}

\* one keyword argument: key=val, or key=[...] when islist
Equals(k, v) == [key |-> k, islist |-> FALSE, val |-> v,  list |-> {}]
OneOf(k, vs) == [key |-> k, islist |-> TRUE,  val |-> "", list |-> vs]

FilterEntries(k) ==
    {Equals(k, v) : v \in FilterKeyVals[k]}
        \cup {OneOf(k, vs) : vs \in SUBSET FilterKeyVals[k]}

AttributeFilters ==
    {fs \in SeqsUpTo(UNION {FilterEntries(k) : k \in Range(FilterKeys)},
                     Len(FilterKeys)) :
        \A i, j \in DOMAIN fs : i # j => fs[i].key # fs[j].key}

\* passes_filters: "True", "False", or "raise" when a lookup raises
RECURSIVE passes_from(_, _, _)
passes_from(grb, filters, n) ==
    IF n > Len(filters) THEN "True"
    ELSE LET f == filters[n]
             v == Lookup(grb, f.key)
         IN  IF v.raised THEN "raise"
             ELSE IF f.islist
                  THEN IF v.val \notin f.list THEN "False"
                       ELSE passes_from(grb, filters, n + 1)
                  ELSE IF v.val # f.val THEN "False"
                       ELSE passes_from(grb, filters, n + 1)

\* variants of passes_filters with a slip in them
passes_filters_first_only(grb, filters) ==
    passes_from(grb, SubSeq(filters, 1, IF filters = <<>> THEN 0 ELSE 1), 1)

passes_filters_ends_false(grb, filters) ==
    IF passes_from(grb, filters, 1) = "raise" THEN "raise" ELSE "False"

passes_filters(grb, filters) == passes_from(grb, filters, 1)

\* ok = [i for i in grbs if passes_filters(i)]
RECURSIVE comprehension(_, _, _)
comprehension(items, filters, n) ==
    IF n > Len(items) THEN [raised |-> FALSE, ok |-> <<>>]
    ELSE LET p == passes_filters(items[n], filters) IN
         IF p = "raise" THEN [raised |-> TRUE, ok |-> <<>>]
         ELSE LET rest == comprehension(items, filters, n + 1) IN
              IF rest.raised THEN rest
              ELSE IF p = "True"
                   THEN [raised |-> FALSE, ok |-> <<items[n]>> \o rest.ok]
                   ELSE rest

\* the singleton collapse of lines 145-146
collapse(ok) == IF Len(ok) = 1 THEN PyMsg(ok[1]) ELSE PyList(ok)

\* a variant of filter_grib_layers that loses the last passing message
filter_drops_last(grbs, filters) ==
    IF grbs.kind # "list" THEN PyRaise("TypeError")
    ELSE LET c == comprehension(grbs.items, filters, 1) IN
         IF c.raised THEN PyRaise("RuntimeError")
         ELSE collapse(IF c.ok = <<>> THEN <<>>
                       ELSE SubSeq(c.ok, 1, Len(c.ok) - 1))

\* a bare message is not a sequence of messages: iterating it indexes it
\* with 0, which the decoder rejects
filter_grib_layers(grbs, filters) ==
    IF grbs.kind # "list" THEN PyRaise("TypeError")
    ELSE LET c == comprehension(grbs.items, filters, 1) IN
         IF c.raised THEN PyRaise("RuntimeError")
         ELSE collapse(c.ok)

\* the number the call prints on line 143
Retained(ret) == Len(ret.items)


----------------------------------------------------------------------------
(* print_full_df *)

DefaultMaxRows    == 60    \* what reset_option('display.max_rows') restores
DefaultMaxColumns == 20    \* what reset_option('display.max_columns') restores
MaxDim            == 3     \* the largest frame printed on its own

Line(text, args) == [text |-> text, args |-> args]

DisplayOptions(rows, columns) == [max_rows |-> rows, max_columns |-> columns]

DefaultOptions == DisplayOptions(DefaultMaxRows, DefaultMaxColumns)

\* a frame: row labels, column labels, and the cells row by row
Frame(index, columns, rows) ==
    [index |-> index, columns |-> columns, rows |-> rows]

NoFrame == Frame(<<>>, <<>>, <<>>)

\* what the call leaves: the options, the lines printed, whether it raised
print_full_df(x, opts, out, broken) ==
    LET widened == DisplayOptions(Len(x.index), Len(x.columns)) IN
    IF broken
    THEN [options |-> widened, out |-> out, raised |-> TRUE]
    ELSE [options |-> DefaultOptions,
          out     |-> Append(out, Line("frame", <<x>>)),
          raised  |-> FALSE]

----------------------------------------------------------------------------
(* open_grib and print_grib_content_report *)

MaxLayers       == 2     \* the most messages behind one source
DefaultInterval == 60    \* timestep_interval_mins when the caller gives none

\* the order in which the decoder lists keys, and their sorted order
KeyOrder   == <<"dataDate", "dataTime", "Nx", "Ny", "name">>
SortedKeys == <<"Nx", "Ny", "dataDate", "dataTime", "name">>

OptionalVals == [dataDate |-> "20170104", Nx |-> "100", Ny |-> "50"]
NameVals     == {"t2m", "u10", ArrayVal, Unreadable}

\* every message has a dataTime and a name, which may be an array or
\* unreadable; dataDate, Nx and Ny may each be missing
ReportMessages ==
    UNION {
        {[k \in D \cup {"dataTime", "name"} |->
            CASE k = "name"     -> n
              [] k = "dataTime" -> "600"
              [] OTHER          -> OptionalVals[k]] :
            n \in NameVals} :
        D \in SUBSET DOMAIN OptionalVals}

Path(msgs)    == [kind |-> "path", items |-> msgs]
ListOf(msgs)  == [kind |-> "list", items |-> msgs]
Bare(msg)     == [kind |-> "msg",  items |-> <<msg>>]

\* grb["stepUnits"] = 0
patch_step(grb) ==
    [k \in DOMAIN grb \cup {"stepUnits"} |->
        IF k = "stepUnits" THEN "0" ELSE grb[k]]

\* lines 94-108; select() lists every message of the resource
open_grib(grbs, timestep_interval_mins) ==
    IF grbs.kind # "path" THEN PyRaise("IOError")
    ELSE LET sel == [i \in DOMAIN grbs.items |->
                        IF timestep_interval_mins < DefaultInterval
                        THEN patch_step(grbs.items[i]) ELSE grbs.items[i]]
         IN  IF Len(sel) = 1 THEN PyMsg(sel[1]) ELSE PyList(sel)

\* grb.keys()
keys(grb) == SelectSeq(KeyOrder, LAMBDA k : k \in DOMAIN grb)

\* lines 31-38: the cell for one feature of one message
cell(grb, feature) ==
    LET v == Lookup(grb, feature) IN
    IF v.raised THEN None
    ELSE IF v.val = ArrayVal THEN None ELSE v.val

\* lines 28-39: the list values built for one message
column(grb) == [j \in 1..Len(keys(grb)) |-> cell(grb, keys(grb)[j])]

\* pd.Series.nunique with None counted as a value
nunique_with_null(row) == Cardinality(Range(row))

\* pd.Series.nunique: the distinct values that are not null
nunique(row) == Cardinality(Range(row) \ {None})

\* x[mask]: the rows of x at the positions in mask, in the order of x
SelectRows(x, mask) ==
    LET pos == SelectSeq([j \in 1..Len(x.index) |-> j],
                         LAMBDA j : j \in mask)
    IN  Frame([q \in 1..Len(pos) |-> x.index[pos[q]]], x.columns,
              [q \in 1..Len(pos) |-> x.rows[pos[q]]])

\* x.sort_index()
sort_index(x) ==
    LET labels == SelectSeq(SortedKeys, LAMBDA k : k \in Range(x.index))
        at(k)  == CHOOSE j \in 1..Len(x.index) : x.index[j] = k
    IN  Frame(labels, x.columns,
              [q \in 1..Len(labels) |-> x.rows[at(labels[q])]])

\* x.transpose()
transpose(x) ==
    Frame(x.columns, x.index,
          [i \in 1..Len(x.columns) |->
              [j \in 1..Len(x.index) |-> x.rows[j][i]]])

\* x.iloc[:, [0]]
first_column(x) ==
    Frame(x.index, <<x.columns[1]>>,
          [j \in 1..Len(x.index) |-> <<x.rows[j][1]>>])

\* Counter(row).items(): each distinct value, in order of first appearance,
\* with the number of its occurrences
counter(row) ==
    LET firsts == SelectSeq([i \in 1..Len(row) |-> i],
                            LAMBDA i : \A h \in 1..(i - 1) : row[h] # row[i])
    IN  [q \in 1..Len(firsts) |->
            <<row[firsts[q]],
              Cardinality({i \in 1..Len(row) : row[i] = row[firsts[q]]})>>]

Ended(status, err, df, same, unique, out, opts) ==
    [status |-> status, err |-> err, df |-> df, same |-> same,
     unique |-> unique, out |-> out, options |-> opts]

\* lines 47-81: the printing, once the three frames exist
report_print(gribfile, grbs, df, df_same, df_unique, out, opts) ==
    LET index == Range(df.index)
        out1 == out \o << Line("GRIB FILE DESCRIPTION:", <<>>) >>
                    \o (IF gribfile.kind = "path"
                        THEN << Line("Grib name:", <<"abspath">>) >> ELSE <<>>)
        date == <<Lookup(grbs[1], "dataDate"), Lookup(grbs[1], "dataTime")>>
        want_date == "dataDate" \in index /\ "dataTime" \in index
        out2 == out1 \o (IF want_date
                         THEN << Line("Grib date:", <<date[1].val, date[2].val>>) >>
                         ELSE <<>>)
        size == <<Lookup(grbs[1], "Nx"), Lookup(grbs[1], "Ny")>>
        want_size == "Nx" \in index
        out3 == out2 \o (IF want_size
                         THEN << Line("Layer size (X x Y):",
                                      <<size[1].val, size[2].val>>) >>
                         ELSE <<>>)
                     \o << Line("Number of layers:", <<Len(grbs)>>) >>
        names == IF "name" \in index
                 THEN counter(df.rows[CHOOSE j \in 1..Len(df.index) :
                                          df.index[j] = "name"])
                 ELSE <<>>
        out4 == out3 \o (IF "name" \in index
                         THEN << Line("Available datasets:", <<>>) >>
                                  \o [q \in 1..Len(names) |->
                                         Line("dataset", names[q])]
                         ELSE <<>>)
                     \o << Line("GENERAL GRIB DATA OVERVIEW:", <<>>) >>
        p1 == print_full_df(first_column(df_same), opts, out4, FALSE)
        out5 == p1.out \o << Line("LAYER-SPECIFIC DATA OVERVIEW:", <<>>) >>
        p2 == print_full_df(df_unique, p1.options, out5, FALSE)
    IN  IF want_date /\ (date[1].raised \/ date[2].raised)
        THEN Ended("raise", "RuntimeError", df, df_same, df_unique, out1, opts)
        ELSE IF want_size /\ (size[1].raised \/ size[2].raised)
        THEN Ended("raise", "RuntimeError", df, df_same, df_unique, out2, opts)
        ELSE Ended("ok", "", df, df_same, df_unique,
                   p2.out \o << Line("*****", <<>>) >>, p2.options)

\* lines 25-45: the table and its two sections, then the printing
report_table(gribfile, grbs, out, opts) ==
    LET index == keys(grbs[1])
        cols  == [i \in 1..Len(grbs) |-> column(grbs[i])]
        df    == Frame(index, [i \in 1..Len(grbs) |-> i - 1],
                       [j \in 1..Len(index) |->
                           [i \in 1..Len(grbs) |-> cols[i][j]]])
        df_same   == sort_index(SelectRows(df,
                        {j \in 1..Len(index) : nunique(df.rows[j]) = 1}))
        df_unique == transpose(SelectRows(df,
                        {j \in 1..Len(index) : nunique(df.rows[j]) > 1}))
    IN  IF \E i \in 1..Len(grbs) : Len(cols[i]) # Len(index)
        THEN Ended("raise", "ValueError", NoFrame, NoFrame, NoFrame, out, opts)
        ELSE report_print(gribfile, grbs, df, df_same, df_unique, out, opts)

\* lines 16-25: the messages to report on.  Line 19 tests the name grbfile,
\* which nothing defines; indexing a bare message with 0 is rejected by the
\* decoder
print_grib_content_report(gribfile, out, opts) ==
    IF gribfile.kind # "path"
    THEN Ended("raise", "NameError", NoFrame, NoFrame, NoFrame, out, opts)
    ELSE LET grbs == open_grib(gribfile, DefaultInterval) IN
         IF grbs.kind = "msg"
         THEN Ended("raise", "TypeError", NoFrame, NoFrame, NoFrame, out, opts)
         ELSE IF grbs.items = <<>>
         THEN Ended("raise", "IndexError", NoFrame, NoFrame, NoFrame, out, opts)
         ELSE report_table(gribfile, grbs.items, out, opts)

----------------------------------------------------------------------------
(* The calling scripts: one specification per entry point *)

NoReport == [status |-> "none", err |-> ""]

FilterIdle ==
    /\ f_grbs = <<>>
    /\ f_filters = <<>>
    /\ f_ret = NoValue
    /\ f_ret2 = NoValue

RasterIdle ==
    /\ g_arg = NoValue
    /\ g_buffer = 0
    /\ g_nodata = 0
    /\ g_heap0 = <<>>
    /\ g_heap = <<>>
    /\ g_reads = <<>>
    /\ g_ret = NoArrays

PrintIdle ==
    /\ p_x = NoFrame
    /\ p_broken = FALSE

ReportIdle ==
    /\ r_source = ListOf(<<>>)
    /\ r_ret = NoReport
    /\ r_df = NoFrame
    /\ r_same = NoFrame
    /\ r_unique = NoFrame

FreshProcess ==
    /\ options = DefaultOptions
    /\ options0 = options
    /\ stdout = <<>>
    /\ pc = "start"

(* filter_grib_layers, called once and then again on its own result *)

InitFilter ==
    /\ \E n \in 0..MaxLen : f_grbs \in [1..n -> FilterMessages]
    /\ f_filters \in AttributeFilters
    /\ f_ret = NoValue
    /\ f_ret2 = NoValue
    /\ RasterIdle /\ PrintIdle /\ ReportIdle /\ FreshProcess

\* ret = filter_grib_layers(grbs, **filters)
Filter ==
    /\ pc = "start"
    /\ f_ret' = filter_grib_layers(PyList(f_grbs), f_filters)
    /\ stdout' = IF f_ret'.kind = "raise" THEN stdout
                 ELSE Append(stdout, Line("left", <<Retained(f_ret')>>))
    /\ pc' = IF f_ret'.kind = "raise" THEN "raised" ELSE "filtered"
    /\ UNCHANGED <<f_grbs, f_filters, f_ret2, g_vars, p_vars, r_vars,
                   options, options0>>

\* ret2 = filter_grib_layers(ret, **filters)
FilterAgain ==
    /\ pc = "filtered"
    /\ f_ret2' = filter_grib_layers(f_ret, f_filters)
    /\ stdout' = IF f_ret2'.kind = "raise" THEN stdout
                 ELSE Append(stdout, Line("left", <<Retained(f_ret2')>>))
    /\ pc' = IF f_ret2'.kind = "raise" THEN "raised2" ELSE "refiltered"
    /\ UNCHANGED <<f_grbs, f_filters, f_ret, g_vars, p_vars, r_vars,
                   options, options0>>

NextFilter == Filter \/ FilterAgain

SpecFilter == InitFilter /\ [][NextFilter]_vars

(* grib_message_to_arrays_raster.  Message 1 holds any value grid;        *)
(* message i > 1 holds the grid whose cells are all i.                     *)

InitRaster ==
    /\ g_arg \in {PyList(s) : s \in SeqsUpTo(GribIds, MaxGribs)}
                  \cup {PyMsg(i) : i \in GribIds}
    /\ g_buffer \in -1..MaxMag
    /\ g_nodata \in {0, 9}
    /\ \E v \in Grids :
         g_heap0 = [i \in GribIds |->
                      Arrays(i, IF i = 1 THEN v ELSE [c \in 1..GridCells |-> i])]
    /\ g_heap = g_heap0
    /\ g_reads = <<>>
    /\ g_ret = NoArrays
    /\ FilterIdle /\ PrintIdle /\ ReportIdle /\ FreshProcess

\* values, lats, lons = grib_message_to_arrays_raster(grb, nodata_buffer, nodata)
ToGrid ==
    /\ pc = "start"
    /\ LET r == grib_message_to_arrays_raster(g_arg, g_buffer, g_nodata, g_heap)
       IN  /\ g_ret' = r.ret
           /\ g_heap' = r.heap
           /\ g_reads' = r.reads
           /\ pc' = IF r.ret.kind = "raise" THEN "raised" ELSE "extracted"
    /\ UNCHANGED <<g_arg, g_buffer, g_nodata, g_heap0, f_vars, p_vars, r_vars,
                   options, options0, stdout>>

NextRaster == ToGrid

SpecRaster == InitRaster /\ [][NextRaster]_vars

(* print_full_df, under any display options the caller may have set *)

CallerOptions ==
    {DisplayOptions(r, c) : r \in {DefaultMaxRows, 10, 500},
                            c \in {DefaultMaxColumns, 5, 50}}

InitPrint ==
    /\ options \in CallerOptions
    /\ options0 = options
    /\ p_x \in {Frame([j \in 1..r |-> j], [i \in 1..c |-> i - 1],
                      [j \in 1..r |-> [i \in 1..c |-> None]]) :
                    r \in 0..MaxDim, c \in 0..MaxDim}
    /\ p_broken \in BOOLEAN
    /\ stdout = <<>>
    /\ pc = "start"
    /\ FilterIdle /\ RasterIdle /\ ReportIdle

\* print_full_df(x)
PrintFullDf ==
    /\ pc = "start"
    /\ LET r == print_full_df(p_x, options, stdout, p_broken)
       IN  /\ options' = r.options
           /\ stdout' = r.out
           /\ pc' = IF r.raised THEN "raised" ELSE "printed"
    /\ UNCHANGED <<f_vars, g_vars, p_vars, r_vars, options0>>

NextPrint == PrintFullDf

SpecPrint == InitPrint /\ [][NextPrint]_vars

(* print_grib_content_report on a path, a list of messages or a message *)

\* a path to a resource of at least one message, a list, or a message
InitReport ==
    /\ \/ \E n \in 1..MaxLayers : \E s \in [1..n -> ReportMessages] :
            r_source = Path(s)
       \/ \E n \in 0..MaxLayers : \E s \in [1..n -> ReportMessages] :
            r_source = ListOf(s)
       \/ \E m \in ReportMessages : r_source = Bare(m)
    /\ r_ret = NoReport
    /\ r_df = NoFrame
    /\ r_same = NoFrame
    /\ r_unique = NoFrame
    /\ FilterIdle /\ RasterIdle /\ PrintIdle /\ FreshProcess

\* print_grib_content_report(gribfile)
Report ==
    /\ pc = "start"
    /\ LET r == print_grib_content_report(r_source, stdout, options)
       IN  /\ r_ret' = [status |-> r.status, err |-> r.err]
           /\ r_df' = r.df
           /\ r_same' = r.same
           /\ r_unique' = r.unique
           /\ stdout' = r.out
           /\ options' = r.options
           /\ pc' = IF r.status = "raise" THEN "raised" ELSE "reported"
    /\ UNCHANGED <<r_source, f_vars, g_vars, p_vars, options0>>

NextReport == Report

SpecReport == InitReport /\ [][NextReport]_vars

----------------------------------------------------------------------------
(* Properties of filter_grib_layers, under SpecFilter *)

\* message m satisfies the keyword argument f
EntryHolds(m, f) ==
    /\ f.key \in DOMAIN m
    /\ IF f.islist THEN m[f.key] \in f.list ELSE m[f.key] = f.val

Satisfies(m, F) == \A i \in DOMAIN F : EntryHolds(m, F[i])

Passing == SelectSeq(f_grbs, LAMBDA m : Satisfies(m, f_filters))

\* the evaluation of m reaches a keyword whose attribute m does not have
LookupRaises(m, F) ==
    \E i \in DOMAIN F :
        /\ F[i].key \notin DOMAIN m
        /\ \A h \in 1..(i - 1) : EntryHolds(m, F[h])

AllKeysPresent ==
    \A i \in DOMAIN f_grbs : \A j \in DOMAIN f_filters :
        f_filters[j].key \in DOMAIN f_grbs[i]

\* C1 as stated: filter(S, F) returns the sequence of exactly the messages
\* of S that satisfy every entry of F, in the order of S, for every number
\* of passing messages including 0 and 1 (read here on inputs where every
\* message has every filtered attribute).
C1_SubsequenceAsStated ==
    (pc # "start" /\ AllKeysPresent) => f_ret = PyList(Passing)

\* C1 amended: the call returns the messages of S that satisfy every entry
\* of F, in the order of S, as a list when 0 or at least 2 pass and as the
\* bare message when exactly one passes; when the evaluation of some message
\* reaches an attribute it lacks, the call raises instead.
C1_SubsequenceOrBareMessage ==
    pc # "start" =>
        f_ret = IF \E i \in DOMAIN f_grbs : LookupRaises(f_grbs[i], f_filters)
                THEN PyRaise("RuntimeError")
                ELSE IF Len(Passing) = 1 THEN PyMsg(Passing[1])
                ELSE PyList(Passing)

C1_Witness ==
    /\ pc = "filtered"
    /\ Len(f_grbs) = 3 /\ Len(f_filters) = 2
    /\ f_ret.kind = "list" /\ Len(f_ret.items) = 2
    /\ f_ret.items[1] # f_ret.items[2]

\* C2 as stated: filter(filter(S, F), F) = filter(S, F), whatever the number
\* of messages the first call retains (0, 1 or more).
C2_IdempotentAsStated ==
    pc \in {"refiltered", "raised2"} => f_ret2 = f_ret

\* C2 amended: filter(filter(S, F), F) = filter(S, F) when the first call
\* retains 0 or at least 2 messages; when it retains exactly one it returns
\* the bare message, and the second call on that message raises.
C2_IdempotentOnLists ==
    pc \in {"refiltered", "raised2"} =>
        /\ Len(Passing) # 1 => f_ret2 = f_ret
        /\ Len(Passing) = 1 => f_ret.kind = "msg" /\ f_ret2.kind = "raise"

C2_Witness ==
    /\ pc = "refiltered"
    /\ Len(f_grbs) = 3 /\ f_filters # <<>>
    /\ Len(f_ret.items) = 2 /\ f_ret2 = f_ret

\* C3 as stated: filter(S, {}) returns S unchanged for S of any length,
\* length 1 included.
C3_EmptyFilterIdentityAsStated ==
    (pc # "start" /\ f_filters = <<>>) => f_ret = PyList(f_grbs)

\* C3 amended: filter(S, {}) returns S unchanged when S has 0 or at least 2
\* messages, and the bare message S[0] when S has exactly one.
C3_EmptyFilterIdentityOrBare ==
    (pc # "start" /\ f_filters = <<>>) =>
        f_ret = IF Len(f_grbs) = 1 THEN PyMsg(f_grbs[1]) ELSE PyList(f_grbs)

C3_Witness ==
    /\ pc = "filtered" /\ f_filters = <<>>
    /\ Len(f_grbs) = 3 /\ f_ret.items = f_grbs

\* C4 as stated: a message whose lookup of a filter key raises because the
\* attribute is absent fails the filter; the error does not reach the
\* caller, and the other messages are still evaluated and returned.
C4_AbsentAttributeFails ==
    pc # "start" => f_ret.kind # "raise" /\ f_ret.items = Passing

----------------------------------------------------------------------------
(* Properties of grib_message_to_arrays_raster, under SpecRaster *)

Abs(x) == IF x < 0 THEN -x ELSE x

\* the message a one-layer argument stands for
TheLayer == g_arg.items[1]

\* C5: a list of exactly one message gives what the message itself gives;
\* a list of n > 1 messages fails with the multi-layer error stating n,
\* having read no grid and changed no value array.
C5_UnwrapOrMultiLayerError ==
    (pc # "start" /\ g_arg.kind = "list") =>
        /\ Len(g_arg.items) = 1 =>
              [ret |-> g_ret, heap |-> g_heap, reads |-> g_reads]
                = grib_message_to_arrays_raster(PyMsg(TheLayer), g_buffer,
                                                g_nodata, g_heap0)
        /\ Len(g_arg.items) > 1 =>
              /\ g_ret.kind = "raise" /\ g_ret.err = "IOError"
              /\ g_ret.layers = Len(g_arg.items)
              /\ g_reads = <<>>
              /\ g_heap = g_heap0

C5_Witness ==
    /\ pc = "extracted"
    /\ g_arg.kind = "list" /\ Len(g_arg.items) = 1
    /\ g_ret.values # g_heap0[TheLayer].values

\* C6 as stated: with a non-zero threshold t and nodata value v, every
\* entry whose absolute value was < t equals v afterwards and every other
\* entry, negative ones of magnitude >= t included, is unchanged; the
\* latitude and longitude grids are returned unmodified.
C6_ClampByMagnitudeAsStated ==
    (pc = "extracted" /\ g_buffer # 0) =>
        /\ \A c \in 1..GridCells :
              g_ret.values[c] = IF Abs(g_heap0[TheLayer].values[c]) < g_buffer
                                THEN g_nodata
                                ELSE g_heap0[TheLayer].values[c]
        /\ g_ret.lats = g_heap0[TheLayer].lats
        /\ g_ret.lons = g_heap0[TheLayer].lons

\* C6 amended: with a non-zero threshold t and nodata value v, every entry
\* whose signed value was < t equals v afterwards (so every negative entry
\* below t is replaced, whatever its magnitude) and every entry >= t is
\* unchanged; the latitude and longitude grids are returned unmodified.
C6_ClampBySignedValue ==
    (pc = "extracted" /\ g_buffer # 0) =>
        /\ \A c \in 1..GridCells :
              g_ret.values[c] = IF g_heap0[TheLayer].values[c] < g_buffer
                                THEN g_nodata
                                ELSE g_heap0[TheLayer].values[c]
        /\ g_ret.lats = g_heap0[TheLayer].lats
        /\ g_ret.lons = g_heap0[TheLayer].lons

C6_Witness ==
    /\ pc = "extracted" /\ g_buffer > 0 /\ g_nodata # 0
    /\ \E c \in 1..GridCells : g_heap0[TheLayer].values[c] <= -g_buffer
    /\ \E c \in 1..GridCells : g_heap0[TheLayer].values[c] >= g_buffer
    /\ \E c \in 1..GridCells : g_ret.values[c] = g_nodata

----------------------------------------------------------------------------
(* Properties of print_full_df, under SpecPrint *)

\* C8 as stated: the display limits (max rows, max columns) in force before
\* a full-table print are in force again after it, whatever they were and
\* whether the print returns or raises.
C8_LimitsRestored ==
    pc \in {"printed", "raised"} => options = options0

----------------------------------------------------------------------------
(* Properties of print_grib_content_report, under SpecReport *)

RowCells(j)   == Range(r_df.rows[j])
InCommon(j)   == r_df.index[j] \in Range(r_same.index)
InPerLayer(j) == r_df.index[j] \in Range(r_unique.columns)

\* C7 as stated: every row of the table is in exactly one section, the
\* common one iff its cells, the null sentinel counted as a value, form
\* exactly one distinct value; so a row of sentinels only is common and a
\* row mixing the sentinel with one real value is per-layer.
C7_ClassifiedSentinelAsValue ==
    pc = "reported" =>
        \A j \in 1..Len(r_df.index) :
            /\ InCommon(j) # InPerLayer(j)
            /\ InCommon(j) <=> Cardinality(RowCells(j)) = 1

\* C7 amended: every row of the table is in at most one section: in the
\* common one iff its cells other than the null sentinel form exactly one
\* distinct value, in the per-layer one iff they form more than one; so a
\* row of sentinels only is in neither section and a row mixing the
\* sentinel with one real value is common.
C7_ClassifiedSentinelIgnored ==
    pc = "reported" =>
        \A j \in 1..Len(r_df.index) :
            LET real == RowCells(j) \ {None} IN
            /\ ~(InCommon(j) /\ InPerLayer(j))
            /\ InCommon(j) <=> \E v \in real : real = {v}
            /\ InPerLayer(j) <=> \E v, w \in real : v # w

C7_Witness ==
    /\ pc = "reported"
    /\ \E j \in 1..Len(r_df.index) :
          InCommon(j) /\ None \in RowCells(j)
    /\ \E j \in 1..Len(r_df.index) : InPerLayer(j)

\* every message exposes the same attributes, and Ny wherever Nx
Uniform ==
    /\ r_source.items # <<>>
    /\ \A i \in DOMAIN r_source.items :
          /\ DOMAIN r_source.items[i] = DOMAIN r_source.items[1]
          /\ "Nx" \in DOMAIN r_source.items[i]
                => "Ny" \in DOMAIN r_source.items[i]

\* C9 as stated: the report completes for a path (one that yields exactly
\* one message included), for a list of messages and for a bare message
\* (read here on messages that all expose the same attributes).
C9_EveryInputShapeReports ==
    (pc # "start" /\ Uniform) => r_ret.status = "ok"

\* C10 as stated: the report never raises because messages differ in the
\* attributes they expose: each failing lookup becomes the null sentinel
\* and the report completes (read here on a path yielding two or more
\* messages, the input shape the report does accept).
C10_HeterogeneousMessagesReport ==
    (pc # "start" /\ r_source.kind = "path" /\ Len(r_source.items) >= 2)
        => r_ret.status = "ok"

====
